---- MODULE Spec2Model ----
(***************************************************************************)
(* crawler-to-md: the crawl engine (crawler_to_md/scraper.py,              *)
(* Scraper.start_scraping) over the SQLite store                           *)
(* (crawler_to_md/database_manager.py, DatabaseManager).                   *)
(*                                                                         *)
(* A URL is a record [scheme, host, path, frag]; path is a sequence of     *)
(* path segments.  The store is the two tables links and pages, each a     *)
(* function from the URLs that have a row to the row.  Every store         *)
(* transaction of start_scraping is one step of the model, so the store    *)
(* states between two transactions of one batch are states of the model.   *)
(***************************************************************************)
EXTENDS Integers, Sequences, FiniteSets, TLC

\* ------------------------------------------------------------------ bounds
\* Scraper.unvisited_links_batch_size as set by the run (the tests use 2).
BatchSize == 2
\* The retry ceiling max_retries of the configuration; direct
\* commit_crawl_batch calls raise retry_count up to it.
max_retries == 2

\* --------------------------------------------------------------- the URLs
URL(s, h, p, f) == [scheme |-> s, host |-> h, path |-> p, frag |-> f]

Root == URL("http", "ex.com", <<>>, "")
PageA == URL("http", "ex.com", <<"a">>, "")
PageX == URL("http", "ex.com", <<"x">>, "")
RawRoot == URL("HTTP", "Ex.com", <<>>, "top")
Relative == URL("", "", <<"a">>, "")
Other == URL("http", "other.com", <<>>, "")
MailTo == URL("mailto", "", <<"me">>, "")

\* The seeds a caller may pass to start_scraping.
SeedInputs == {RawRoot, PageA, PageX, Relative}

\* Scraper configuration (Scraper.__init__).
base_url == Root
exclude_patterns == {"x"}
include_url_patterns == {}

NULL == "<NULL>"

\* ------------------------------------------------------- URL utilities
Lower(s) ==
    CASE s = "HTTP" -> "http"
      [] s = "Ex.com" -> "ex.com"
      [] OTHER -> s

\* utils.normalize_url raises ValueError without an absolute scheme and host.
NormalizeOk(u) == u.scheme # "" /\ u.host # ""

normalize_url(u) ==
    [scheme |-> Lower(u.scheme), host |-> Lower(u.host),
     path |-> u.path, frag |-> ""]

is_supported_scheme(u) == u.scheme \in {"http", "https"}

IsPrefix(p, q) ==
    /\ Len(p) <= Len(q)
    /\ \A i \in 1..Len(p) : p[i] = q[i]

is_url_in_scope(u, base) ==
    /\ normalize_url(u).host = normalize_url(base).host
    /\ IsPrefix(normalize_url(base).path, normalize_url(u).path)

\* A pattern matches a URL when it occurs in the URL's path.
PatternMatch(patterns, u) == \E i \in 1..Len(u.path) : u.path[i] \in patterns

is_valid_link(link) ==
    /\ NormalizeOk(link)
    /\ is_supported_scheme(normalize_url(link))
    /\ is_url_in_scope(normalize_url(link), base_url)
    /\ (include_url_patterns # {} =>
            PatternMatch(include_url_patterns, normalize_url(link)))
    /\ ~PatternMatch(exclude_patterns, normalize_url(link))

urldefrag(u) == [u EXCEPT !.frag = ""]

\* ---------------------------------------------------------- the web site
\* The <a href> targets of the page served at a URL, already resolved
\* against the page's URL.
Anchors(u) ==
    CASE u = Root -> {URL("HTTP", "ex.com", <<"a">>, "sec"), PageX, Other, MailTo}
      [] u = PageA -> {RawRoot, Relative}
      [] OTHER -> {}

ConnectionError == [kind |-> "exception", cls |-> "ConnectionError", msg |-> "boom"]
Resp(status, ctype, md) ==
    [kind |-> "response", status |-> status, ctype |-> ctype, markdown |-> md]

\* What session.get may do for a request, with the Markdown the page
\* converts to.
Responses ==
    {ConnectionError,
     Resp(500, "text/html", ""),
     Resp(404, "text/html", ""),
     Resp(200, "application/pdf", ""),
     Resp(200, "text/html", "# MD"),
     Resp(200, "text/html", "")}

\* ------------------------------------------------------------- the state
VARIABLES
    links,                  \* table links: url -> [visited, retry_count]
    pages,                  \* table pages: url -> [content, metadata]
    pc,                     \* position of the caller in start_scraping
    urls_list,              \* TRUE iff the run was given a non-empty urls_list
    unvisited_links,        \* the batch read by get_unvisited_links
    todo,                   \* the links of the batch not yet processed
    links_to_mark_visited,  \* batch accumulator
    pages_to_upsert,        \* batch accumulator, rows (url, content, metadata)
    all_discovered_links,   \* batch accumulator
    responses,              \* history: what the GET of each batch URL did
    links0,                 \* history: table links when the batch was read
    pages0,                 \* history: table pages when the batch was read
    fetched,                \* history: URLs GET-requested in this run
    requeued,               \* history: URLs the requeue phase of this run made unvisited
    scraped,                \* history: URLs visited with content at the end of a run
    failed_runs,            \* history: url -> GETs of it that failed retriably, in a row
    db_call,                \* history: the last direct commit_crawl_batch call
    rate_limit,             \* Scraper.rate_limit of the running Scraper
    request_count,          \* local of start_scraping
    start_time,             \* local of start_scraping: start of the window
    now,                    \* time.time(), in seconds since the run began
    gets,                   \* history: the times of the GETs of this run
    window_gets,            \* history: GETs since the last reset of request_count
    window_resets,          \* history: resets of request_count in this run
    sleeps,                 \* history: rate-limit sleeps of this run
    buffer,                 \* the content given to _minify_markdown
    once,                   \* _minify_markdown(buffer)
    twice,                  \* _minify_markdown(once)
    minify_pc,              \* "input", "once" or "twice": what has been computed
    closed,                 \* DatabaseManager._closed: the connection is closed
    db_result,              \* history: the last direct call and what it returned
    file,                   \* the database file at db_path: tables, columns, rows
    opens,                  \* history: how often DatabaseManager(db_path) ran
    exported,               \* history: the last export and what it wrote
    skipped                 \* history: URLs whose request ended in a permanent skip

vars == <<links, pages, pc, urls_list, unvisited_links, todo,
          links_to_mark_visited, pages_to_upsert, all_discovered_links,
          responses, links0, pages0, fetched, requeued, scraped, failed_runs,
          db_call, rate_limit, request_count, start_time, now, gets,
          window_gets, window_resets, sleeps, buffer, once, twice,
          minify_pc, closed, db_result, file, opens,
          exported, skipped>>

\* What the crawl itself never writes: the histories and the state of the
\* parts of the program that a specification leaves out.
aux_retry == <<failed_runs>>
aux_store == <<db_call>>
aux_rate == <<rate_limit, request_count, start_time, now, gets, window_gets,
              window_resets, sleeps>>
aux_minify == <<buffer, once, twice, minify_pc>>
aux_api == <<closed, db_result>>
aux_file == <<file, opens>>
aux_export == <<exported>>
aux_skip == <<skipped>>
aux == <<aux_retry, aux_store, aux_rate, aux_minify,
        aux_api,
        aux_file,
        aux_export,
        aux_skip>>
Steady == UNCHANGED aux

store == <<links, pages>>
batch == <<unvisited_links, todo, links_to_mark_visited, pages_to_upsert,
           all_discovered_links, responses, links0, pages0>>
crawl == <<pc, urls_list, batch, fetched, requeued, scraped>>

EmptyFn == [u \in {} |-> NULL]
Range(s) == {s[i] : i \in 1..Len(s)}

\* ------------------------------------------------------ DatabaseManager
LinkRow(visited) == [visited |-> visited, retry_count |-> 0]

\* Variant: INSERT OR REPLACE, an existing row is written anew.
insert_links_replace(tbl, urls, visited) ==
    [u \in DOMAIN tbl \cup urls |->
        IF u \in urls THEN LinkRow(visited) ELSE tbl[u]]

\* INSERT OR IGNORE INTO links (url, visited): existing rows are kept.
insert_links(tbl, urls, visited) ==
    [u \in DOMAIN tbl \cup urls |->
        IF u \in DOMAIN tbl THEN tbl[u] ELSE LinkRow(visited)]

\* Variant: a URL without a row gets a visited row.
mark_links_visited_upsert(tbl, urls) ==
    [u \in DOMAIN tbl \cup urls |->
        IF u \in urls
        THEN IF u \in DOMAIN tbl THEN [tbl[u] EXCEPT !.visited = TRUE]
             ELSE LinkRow(TRUE)
        ELSE tbl[u]]

\* UPDATE links SET visited = TRUE WHERE url = ?
mark_links_visited(tbl, urls) ==
    [u \in DOMAIN tbl |->
        IF u \in urls THEN [tbl[u] EXCEPT !.visited = TRUE] ELSE tbl[u]]

\* UPDATE links SET visited = FALSE WHERE url = ?
mark_link_unvisited(tbl, url) ==
    [u \in DOMAIN tbl |->
        IF u = url THEN [tbl[u] EXCEPT !.visited = FALSE] ELSE tbl[u]]

\* INSERT ... ON CONFLICT(url) DO UPDATE, the rows applied in order.
RECURSIVE upsert_pages(_, _)
upsert_pages(tbl, rows) ==
    IF rows = <<>> THEN tbl
    ELSE LET r == Head(rows)
             t == [u \in DOMAIN tbl \cup {r.url} |->
                      IF u = r.url
                      THEN [content |-> r.content, metadata |-> r.metadata]
                      ELSE tbl[u]]
         IN  upsert_pages(t, Tail(rows))

\* SELECT url FROM pages WHERE content IS NULL
get_failed_page_urls(pgs) == {u \in DOMAIN pgs : pgs[u].content = NULL}

\* Variant: a link at the limit still counts as retriable.
get_retriable_failed_urls_inclusive(lks, pgs, limit) ==
    {u \in DOMAIN pgs \cap DOMAIN lks :
        pgs[u].content = NULL /\ lks[u].retry_count <= limit}

\* SELECT p.url FROM pages p JOIN links l ... WHERE p.content IS NULL
\*   AND l.retry_count < ?
get_retriable_failed_urls(lks, pgs, limit) ==
    {u \in DOMAIN pgs \cap DOMAIN lks :
        pgs[u].content = NULL /\ lks[u].retry_count < limit}

Unvisited(lks) == {u \in DOMAIN lks : ~lks[u].visited}

Min(a, b) == IF a < b THEN a ELSE b

\* Variant: the LIMIT is left out of the query.
get_unvisited_links_unlimited(lks, limit) ==
    LET U == {u \in DOMAIN lks : ~lks[u].visited}
        k == Cardinality(U)
    IN  {s \in [1..k -> U] : \A i, j \in 1..k : s[i] = s[j] => i = j}

\* SELECT url FROM links WHERE visited = FALSE LIMIT ?: the possible results,
\* the row order being up to SQLite.
get_unvisited_links(lks, limit) ==
    LET U == Unvisited(lks)
        k == Min(limit, Cardinality(U))
    IN  {s \in [1..k -> U] : \A i, j \in 1..k : s[i] = s[j] => i = j}

\* UPDATE links SET retry_count = retry_count + 1 WHERE url = ?
increment_retries(tbl, urls) ==
    [u \in DOMAIN tbl |->
        IF u \in urls
        THEN [tbl[u] EXCEPT !.retry_count = tbl[u].retry_count + 1] ELSE tbl[u]]

\* UPDATE links SET retry_count = 0 WHERE url = ?
reset_retries(tbl, urls) ==
    [u \in DOMAIN tbl |->
        IF u \in urls THEN [tbl[u] EXCEPT !.retry_count = 0] ELSE tbl[u]]

\* commit_crawl_batch: the four sub-operations in one transaction; the
\* result is the pair <<links, pages>>.
commit_crawl_batch(lks, pgs, upserts, visits, increments, resets) ==
    <<reset_retries(
          increment_retries(mark_links_visited(lks, visits), increments),
          resets),
      upsert_pages(pgs, upserts)>>

\* The statements commit_crawl_batch executes, in order: one per row of each
\* executemany, a sub-operation with an empty argument executing none.
Statements(pages_upsert, visited_updates, retry_increments, retry_resets) ==
    [i \in 1..Len(pages_upsert) |-> [sql |-> "upsert", arg |-> pages_upsert[i]]]
    \o [i \in 1..Len(visited_updates) |->
           [sql |-> "visited", arg |-> visited_updates[i]]]
    \o [i \in 1..Len(retry_increments) |->
           [sql |-> "increment", arg |-> retry_increments[i]]]
    \o [i \in 1..Len(retry_resets) |->
           [sql |-> "reset", arg |-> retry_resets[i]]]

\* One statement applied to the tables <<links, pages>>.
Execute(st, tables) ==
    CASE st.sql = "upsert" -> <<tables[1], upsert_pages(tables[2], <<st.arg>>)>>
      [] st.sql = "visited" -> <<mark_links_visited(tables[1], {st.arg}), tables[2]>>
      [] st.sql = "increment" -> <<increment_retries(tables[1], {st.arg}), tables[2]>>
      [] st.sql = "reset" -> <<reset_retries(tables[1], {st.arg}), tables[2]>>

\* The body of the with-block: the statements run in order inside the open
\* transaction until statement number fail_at raises (0: none raises).
RECURSIVE ExecuteAll(_, _, _)
ExecuteAll(stmts, tables, fail_at) ==
    IF fail_at = 1 THEN [tables |-> tables, raised |-> TRUE]
    ELSE IF stmts = <<>> THEN [tables |-> tables, raised |-> FALSE]
    ELSE ExecuteAll(Tail(stmts), Execute(Head(stmts), tables),
                    IF fail_at = 0 THEN 0 ELSE fail_at - 1)

\* Variant: what the statements wrote before the exception stays.
with_conn_keeps_partial(before, body) == body.tables

\* with self.conn: commit when the body returns, rollback when it raises.
with_conn(before, body) == IF body.raised THEN before ELSE body.tables

NoCall ==
    [n |-> 0, fail_at |-> 0, pages_upsert |-> <<>>, visited_updates |-> <<>>,
     retry_increments |-> <<>>, retry_resets |-> <<>>]

\* A database file: the tables it has, the columns of links, and the rows.
\* A link row maps the columns other than the key url to their values.
File(tables, columns, link_rows, page_rows) ==
    [tables |-> tables, columns |-> columns, links |-> link_rows,
     pages |-> page_rows]

\* sqlite3.connect on a path that does not exist, or on ":memory:".
NoFile == File({}, {}, EmptyFn, EmptyFn)

OldColumns == {"url", "visited"}
NewColumns == {"url", "visited", "retry_count"}

\* create_tables: CREATE TABLE IF NOT EXISTS pages, then links.
create_tables(f) ==
    [f EXCEPT !.tables = f.tables \cup {"pages", "links"},
              !.columns = IF "links" \in f.tables THEN f.columns
                          ELSE NewColumns]

\* ALTER TABLE links ADD COLUMN col INTEGER DEFAULT value
AddColumn(f, col, value) ==
    [f EXCEPT !.columns = f.columns \cup {col},
              !.links = [u \in DOMAIN f.links |->
                            [c \in DOMAIN f.links[u] \cup {col} |->
                                IF c = col THEN value ELSE f.links[u][c]]]]

\* Variant: the added column has no default.
migrate_schema_no_default(f) ==
    IF "retry_count" \notin f.columns
    THEN AddColumn(f, "retry_count", -1)
    ELSE f

\* _migrate_schema: add retry_count when PRAGMA table_info lacks it.
migrate_schema(f) ==
    IF "retry_count" \notin f.columns
    THEN AddColumn(f, "retry_count", 0)
    ELSE f

\* What an export wrote: one part for each page that reached the output,
\* with the content it was made from and the functions applied to it.
Exported(n, op, minify, parts, error) ==
    [n |-> n, op |-> op, minify |-> minify, parts |-> parts, error |-> error]

NoExport == Exported(0, "", FALSE, <<>>, "")

\* What a call returned: count for an int, urls for a list of URLs, error
\* for the class of the exception raised ("" when none); n tells calls apart.
Result(n, op, urls_arg, limit, count, urls, error) ==
    [n |-> n, op |-> op, urls_arg |-> urls_arg, limit |-> limit,
     count |-> count, urls |-> urls, error |-> error]

\* A limit argument: an int, or something else (is_int false) such as "2".
Limit(is_int, val) == [is_int |-> is_int, val |-> val]
NoLimit == Limit(TRUE, 0)

NoResult == Result(0, "", <<>>, NoLimit, 0, <<>>, "")

\* Variant: every statement counts, the ignored ones too.
InsertOrIgnore_counts_all(run, url, visited) ==
    [links |-> IF url \in DOMAIN run.links THEN run.links
               ELSE insert_links(run.links, {url}, visited),
     total_changes |-> run.total_changes + 1]

\* One INSERT OR IGNORE INTO links (url, visited) of the executemany.
InsertOrIgnore(run, url, visited) ==
    IF url \in DOMAIN run.links THEN run
    ELSE [links |-> insert_links(run.links, {url}, visited),
          total_changes |-> run.total_changes + 1]

\* executemany over the list urls, conn.total_changes counted along.
RECURSIVE InsertEach(_, _, _)
InsertEach(run, urls, visited) ==
    IF urls = <<>> THEN run
    ELSE InsertEach(InsertOrIgnore(run, Head(urls), visited), Tail(urls), visited)

\* -------------------------------------------------------------- Scraper
failed_scrape_metadata(status, error_type, error_message) ==
    [scrape_status |-> status, error_type |-> error_type,
     error_message |-> error_message]

PageRow(url, content, metadata) ==
    [url |-> url, content |-> content, metadata |-> metadata]

\* Variant: the links found are not passed through is_valid_link.
extract_links_from_soup_unfiltered(url) ==
    LET normalized == {normalize_url(urldefrag(h)) :
                          h \in {a \in Anchors(url) : NormalizeOk(urldefrag(a))}}
    IN  {l \in normalized : is_supported_scheme(l)}

\* Scraper._extract_links_from_soup: defragment, normalize, drop what does
\* not normalize or has an unsupported scheme, keep what is_valid_link accepts.
extract_links_from_soup(url) ==
    LET normalized == {normalize_url(urldefrag(h)) :
                          h \in {a \in Anchors(url) : NormalizeOk(urldefrag(a))}}
    IN  {l \in normalized : is_supported_scheme(l) /\ is_valid_link(l)}

\* Seed phase, urls_list form: the normalized URLs that validate.
ValidatedUrls(urls) ==
    {normalize_url(u) :
        u \in {i \in urls : NormalizeOk(i) /\ is_valid_link(normalize_url(i))}}

\* Variant: the seed is stored as given.
SingleSeed_raw(url) == IF NormalizeOk(url) THEN {url} ELSE {}

\* Seed phase, single url form: the URL is inserted when it normalizes.
SingleSeed(url) == IF NormalizeOk(url) THEN {normalize_url(url)} ELSE {}

\* Variant: every URL with a page row is queued again.
FailedUrlsToRetry_all(lks, pgs) == DOMAIN pgs

\* The failed URLs start_scraping queues again.
FailedUrlsToRetry(lks, pgs) == get_failed_page_urls(pgs)

\* Retry-requeue phase: insert_link then mark_link_unvisited for every
\* failed URL that normalizes and validates.
RECURSIVE RequeueFailed(_, _)
RequeueFailed(lks, failed) ==
    IF failed = {} THEN lks
    ELSE LET f == CHOOSE x \in failed : TRUE
             n == normalize_url(f)
         IN  IF NormalizeOk(f) /\ is_valid_link(n)
             THEN RequeueFailed(
                      mark_link_unvisited(insert_links(lks, {n}, FALSE), n),
                      failed \ {f})
             ELSE RequeueFailed(lks, failed \ {f})

Requeued(failed) ==
    {normalize_url(f) :
        f \in {x \in failed : NormalizeOk(x) /\ is_valid_link(normalize_url(x))}}

\* Variant: the status code is not looked at.
SkipsResponse_nostatus(r) == r.ctype # "text/html"

\* A response the loop skips: status other than 200 or no text/html.
SkipsResponse(r) == r.status # 200 \/ r.ctype # "text/html"

\* Variant: a URL that does not validate is not marked.
MarkedFor_validonly(raw_url, valid) == IF valid THEN <<raw_url>> ELSE <<>>

\* What a frontier URL adds to links_to_mark_visited, valid or not.
MarkedFor(raw_url, valid) == <<raw_url>>

\* The rows a fetched URL adds to pages_to_upsert.
RowsFor(url, r) ==
    IF r.kind = "exception"
    THEN <<PageRow(url, NULL, failed_scrape_metadata("failed", r.cls, r.msg))>>
    ELSE IF SkipsResponse(r) THEN <<>>
    ELSE IF r.markdown = ""
    THEN <<PageRow(url, NULL,
               failed_scrape_metadata("failed", "NoContentError",
                                      "No content extracted"))>>
    ELSE <<PageRow(url, r.markdown, [title |-> "T"])>>

\* Variant: links are discovered in every run.
DiscoveryEnabled_always(list_mode) == TRUE

\* Links are discovered unless the run was given a urls_list.
DiscoveryEnabled(list_mode) == ~list_mode

\* The links a fetched URL adds to all_discovered_links.
DiscoveredFor(url, r, list_mode) ==
    IF r.kind = "response" /\ ~SkipsResponse(r) /\ DiscoveryEnabled(list_mode)
    THEN extract_links_from_soup(url)
    ELSE {}

Idle == pc \in {"idle", "returned", "aborted"}

ScrapedNow == {u \in DOMAIN links \cap DOMAIN pages :
                  links[u].visited /\ pages[u].content # NULL}

InitCrawl ==
    /\ links = EmptyFn
    /\ pages = EmptyFn
    /\ pc = "idle"
    /\ urls_list = FALSE
    /\ unvisited_links = <<>>
    /\ todo = <<>>
    /\ links_to_mark_visited = <<>>
    /\ pages_to_upsert = <<>>
    /\ all_discovered_links = {}
    /\ responses = EmptyFn
    /\ links0 = EmptyFn
    /\ pages0 = EmptyFn
    /\ fetched = {}
    /\ requeued = {}
    /\ scraped = {}
    /\ failed_runs = EmptyFn
    /\ db_call = NoCall
    /\ rate_limit = 0
    /\ request_count = 0
    /\ start_time = 0
    /\ now = 0
    /\ gets = <<>>
    /\ window_gets = 0
    /\ window_resets = 0
    /\ sleeps = 0
    /\ closed = FALSE
    /\ db_result = NoResult
    /\ file = NoFile
    /\ opens = 0
    /\ exported = NoExport
    /\ skipped = {}

Init ==
    /\ InitCrawl
    /\ buffer = <<>>
    /\ once = <<>>
    /\ twice = <<>>
    /\ minify_pc = "input"

ResetBatch ==
    /\ unvisited_links' = <<>>
    /\ todo' = <<>>
    /\ links_to_mark_visited' = <<>>
    /\ pages_to_upsert' = <<>>
    /\ all_discovered_links' = {}
    /\ responses' = EmptyFn
    /\ links0' = EmptyFn
    /\ pages0' = EmptyFn

\* start_scraping up to the frontier loop: seed phase and requeue phase.
Begin(seeds, list_mode) ==
    /\ Idle
    /\ LET seeded == IF seeds = {} THEN links
                     ELSE insert_links(links, seeds, FALSE)
           failed == FailedUrlsToRetry(seeded, pages)
       IN  /\ links' = RequeueFailed(seeded, failed)
           /\ requeued' = Requeued(failed)
    /\ urls_list' = list_mode
    /\ pc' = "read"
    /\ fetched' = {}
    /\ ResetBatch
    /\ UNCHANGED <<pages, scraped>>

\* start_scraping(urls_list=urls)
StartScrapingList ==
    \E urls \in (SUBSET SeedInputs) \ {{}} :
        /\ Cardinality(urls) <= 2
        /\ Begin(ValidatedUrls(urls), TRUE)

\* start_scraping(url=url)
StartScrapingUrl ==
    \E url \in SeedInputs : Begin(SingleSeed(url), FALSE)

\* start_scraping()
StartScrapingResume == Begin({}, FALSE)

\* Top of the frontier loop: read a batch; leave the loop when it is empty.
ReadBatch ==
    /\ pc = "read"
    /\ \E b \in get_unvisited_links(links, BatchSize) :
        IF b = <<>>
        THEN /\ pc' = "returned"
             /\ scraped' = scraped \cup ScrapedNow
             /\ ResetBatch
             /\ UNCHANGED <<links, pages, urls_list, fetched, requeued>>
        ELSE /\ pc' = "fetch"
             /\ unvisited_links' = b
             /\ todo' = b
             /\ links_to_mark_visited' = <<>>
             /\ pages_to_upsert' = <<>>
             /\ all_discovered_links' = {}
             /\ responses' = EmptyFn
             /\ links0' = links
             /\ pages0' = pages
             /\ UNCHANGED <<links, pages, urls_list, fetched, requeued, scraped>>

NextPc == IF Tail(todo) = <<>> THEN "upsert_pages" ELSE "fetch"

\* A frontier URL that does not normalize or validate: no request.
ProcessLinkSkip ==
    /\ pc = "fetch"
    /\ LET raw_url == Head(todo)
       IN  /\ ~(NormalizeOk(raw_url) /\ is_valid_link(normalize_url(raw_url)))
           /\ links_to_mark_visited' =
                  links_to_mark_visited \o MarkedFor(raw_url, FALSE)
    /\ todo' = Tail(todo)
    /\ pc' = NextPc
    /\ UNCHANGED <<links, pages, urls_list, unvisited_links, pages_to_upsert,
                   all_discovered_links, responses, links0, pages0, fetched,
                   requeued, scraped>>

\* A frontier URL that is requested: session.get answers r.
ProcessLinkFetch ==
    /\ pc = "fetch"
    /\ LET raw_url == Head(todo)
           url == normalize_url(raw_url)
       IN  /\ NormalizeOk(raw_url) /\ is_valid_link(url)
           /\ \E r \in Responses :
                /\ links_to_mark_visited' =
                       links_to_mark_visited \o MarkedFor(raw_url, TRUE)
                /\ fetched' = fetched \cup {url}
                /\ responses' = (raw_url :> r) @@ responses
                /\ pages_to_upsert' = pages_to_upsert \o RowsFor(url, r)
                /\ all_discovered_links' =
                       all_discovered_links \cup DiscoveredFor(url, r, urls_list)
    /\ todo' = Tail(todo)
    /\ pc' = NextPc
    /\ UNCHANGED <<links, pages, urls_list, unvisited_links, links0, pages0,
                   requeued, scraped>>

\* Batch end, first transaction: upsert_pages(pages_to_upsert).
UpsertPages ==
    /\ pc = "upsert_pages"
    /\ pages' = IF pages_to_upsert # <<>>
                THEN upsert_pages(pages, pages_to_upsert) ELSE pages
    /\ pc' = "insert_links"
    /\ UNCHANGED <<links, urls_list, fetched, requeued, scraped>>
    /\ UNCHANGED batch

\* Batch end, second transaction: insert_links(all_discovered_links).
InsertDiscovered ==
    /\ pc = "insert_links"
    /\ links' = IF DiscoveryEnabled(urls_list) /\ all_discovered_links # {}
                THEN insert_links(links, all_discovered_links, FALSE) ELSE links
    /\ pc' = "mark_links_visited"
    /\ UNCHANGED <<pages, urls_list, fetched, requeued, scraped>>
    /\ UNCHANGED batch

\* Batch end, third transaction: mark_links_visited(links_to_mark_visited).
MarkVisited ==
    /\ pc = "mark_links_visited"
    /\ links' = IF links_to_mark_visited # <<>>
                THEN mark_links_visited(links, Range(links_to_mark_visited))
                ELSE links
    /\ pc' = "read"
    /\ UNCHANGED <<pages, urls_list, fetched, requeued, scraped>>
    /\ UNCHANGED batch

\* The process is killed during a run; the store keeps what was committed.
Abort ==
    /\ ~Idle
    /\ pc' = "aborted"
    /\ scraped' = scraped \cup ScrapedNow
    /\ ResetBatch
    /\ UNCHANGED <<links, pages, urls_list, fetched, requeued>>

NextRun ==
    \/ StartScrapingList /\ Steady
    \/ StartScrapingUrl /\ Steady
    \/ StartScrapingResume /\ Steady
    \/ ReadBatch /\ Steady
    \/ ProcessLinkSkip /\ Steady
    \/ ProcessLinkFetch /\ Steady
    \/ UpsertPages /\ Steady
    \/ InsertDiscovered /\ Steady
    \/ MarkVisited /\ Steady

Next == NextRun \/ (Abort /\ Steady)

Spec == Init /\ [][Next]_vars

\* Runs that are never killed, the single driver always taking its next step.
FairSpec == Init /\ [][NextRun]_vars /\ WF_vars(NextRun)

\* ------------------------------------------------- counting the failures
\* A failure that permits another attempt: network exception, 5xx status,
\* or a page that converts to no Markdown.
RetriableFailure(r) ==
    \/ r.kind = "exception"
    \/ r.kind = "response" /\ r.status \in 500..599
    \/ r.kind = "response" /\ ~SkipsResponse(r) /\ r.markdown = ""

\* The history failed_runs over a step that requests the head of todo.
CountFailedRun ==
    LET raw_url == Head(todo)
        url == normalize_url(raw_url)
        before == IF url \in DOMAIN failed_runs THEN failed_runs[url] ELSE 0
        after == IF RetriableFailure(responses'[raw_url])
                 THEN Min(before + 1, max_retries + 1) ELSE 0
    IN  failed_runs' = [u \in DOMAIN failed_runs \cup {url} |->
                           IF u = url THEN after ELSE failed_runs[u]]

NextRetry ==
    \/ StartScrapingList /\ Steady
    \/ StartScrapingUrl /\ Steady
    \/ StartScrapingResume /\ Steady
    \/ ReadBatch /\ Steady
    \/ ProcessLinkSkip /\ Steady
    \/ ProcessLinkFetch /\ CountFailedRun /\ UNCHANGED <<aux_store, aux_rate, aux_minify, aux_api, aux_file, aux_export, aux_skip>>
    \/ UpsertPages /\ Steady
    \/ InsertDiscovered /\ Steady
    \/ MarkVisited /\ Steady

\* start_scraping runs with the failed requests of every URL counted.
SpecRetry == Init /\ [][NextRetry]_vars

\* ------------------------------------------- the store used directly
\* A caller other than start_scraping commits a batch for one URL.
DbCommitCrawlBatch ==
    /\ Idle
    /\ \E u \in {PageA} :
       \E P \in {<<>>, <<PageRow(u, NULL, [scrape_status |-> "failed"])>>} :
       \E V \in SUBSET {u} : \E I \in SUBSET {u} : \E R \in SUBSET {u} :
        /\ \A x \in I \cap DOMAIN links : links[x].retry_count < max_retries
        /\ LET res == commit_crawl_batch(links, pages, P, V, I, R)
           IN  /\ links' = res[1]
               /\ pages' = res[2]
    /\ UNCHANGED <<pc, urls_list, fetched, requeued, scraped>>
    /\ UNCHANGED batch

NextDb == NextRun \/ (DbCommitCrawlBatch /\ Steady)

\* start_scraping runs interleaved with direct uses of the store.
SpecDb == Init /\ [][NextDb]_vars

\* -------------------------------------------------------- ExportManager
\* Text is a sequence of characters, each a string; "bq" is the backquote.
StartsWith(text, prefix) ==
    Len(text) >= Len(prefix) /\ SubSeq(text, 1, Len(prefix)) = prefix

EndsWith(text, suffix) ==
    Len(text) >= Len(suffix)
        /\ SubSeq(text, Len(text) - Len(suffix) + 1, Len(text)) = suffix

\* str.lstrip(chars), str.rstrip(chars)
RECURSIVE lstrip(_, _)
lstrip(text, chars) ==
    IF text # <<>> /\ Head(text) \in chars THEN lstrip(Tail(text), chars) ELSE text

RECURSIVE rstrip(_, _)
rstrip(text, chars) ==
    IF text # <<>> /\ text[Len(text)] \in chars
    THEN rstrip(SubSeq(text, 1, Len(text) - 1), chars) ELSE text

\* str.strip(): white space off both ends.
Whitespace == {" ", "\t", "\r", "\n"}
strip(text) == lstrip(rstrip(text, Whitespace), Whitespace)

\* str.find(pattern, index), positions counted from 1; 0 when absent.
Find(text, pattern, index) ==
    LET hits == {i \in index..(Len(text) - Len(pattern) + 1) :
                    SubSeq(text, i, i + Len(pattern) - 1) = pattern}
    IN  IF hits = {} THEN 0 ELSE CHOOSE i \in hits : \A j \in hits : i <= j

\* str.split("\n")
RECURSIVE Split(_)
Split(text) ==
    LET nl == Find(text, <<"\n">>, 1)
    IN  IF nl = 0 THEN <<text>>
        ELSE <<SubSeq(text, 1, nl - 1)>> \o Split(SubSeq(text, nl + 1, Len(text)))

\* "\n".join(lines)
RECURSIVE Join(_)
Join(lines) ==
    IF lines = <<>> THEN <<>>
    ELSE IF Len(lines) = 1 THEN lines[1]
    ELSE lines[1] \o <<"\n">> \o Join(Tail(lines))

Backticks == <<"bq", "bq", "bq">>
Tildes == <<"~", "~", "~">>
CommentStart == <<"<", "!", "-", "-">>
CommentEnd == <<"-", "-", ">">>

line_starts_fence(line) ==
    LET stripped == lstrip(line, {" "})
    IN  IF StartsWith(stripped, Backticks) THEN "bq"
        ELSE IF StartsWith(stripped, Tildes) THEN "~"
        ELSE NULL

\* Variant: any fence marker closes the open block.
line_closes_fence_any(line, fence_char) ==
    LET stripped == lstrip(line, {" "})
    IN  StartsWith(stripped, Backticks) \/ StartsWith(stripped, Tildes)

line_closes_fence(line, fence_char) ==
    LET stripped == lstrip(line, {" "})
    IN  IF fence_char = "bq" THEN StartsWith(stripped, Backticks)
        ELSE StartsWith(stripped, Tildes)

\* The while loop of _strip_html_comments_from_line from position index on.
RECURSIVE StripFrom(_, _, _, _)
StripFrom(line, index, in_comment, processed) ==
    IF index > Len(line) THEN [text |-> processed, in_comment |-> in_comment]
    ELSE IF in_comment
    THEN LET comment_end == Find(line, CommentEnd, index)
         IN  IF comment_end = 0 THEN [text |-> processed, in_comment |-> TRUE]
             ELSE StripFrom(line, comment_end + 3, FALSE, processed)
    ELSE LET comment_start == Find(line, CommentStart, index)
         IN  IF comment_start = 0
             THEN [text |-> processed \o SubSeq(line, index, Len(line)),
                   in_comment |-> FALSE]
             ELSE StripFrom(line, comment_start + 4, TRUE,
                            processed \o SubSeq(line, index, comment_start - 1))

strip_html_comments_from_line(line, in_comment) ==
    StripFrom(line, 1, in_comment, <<>>)

\* re.fullmatch(r"-{3,}", text)
HyphensOnly(text) == Len(text) >= 3 /\ \A i \in 1..Len(text) : text[i] = "-"

\* Variant: two spaces at the end are enough, whatever precedes them.
IsHardBreak_loose(line) == EndsWith(line, <<" ", " ">>)

\* stripped_line.endswith("  ") and not stripped_line.endswith("   ")
IsHardBreak(line) ==
    EndsWith(line, <<" ", " ">>) /\ ~EndsWith(line, <<" ", " ", " ">>)

\* Variant: lines inside a fence lose their trailing blanks too.
FencedLine_trimmed(line) == rstrip(line, {" ", "\t"})

\* What is appended to output_lines for a line of a fenced block.
FencedLine(line) == line

\* The for loop of _minify_markdown over the lines left; fence_char is NULL
\* exactly when in_fenced_code is false.
RECURSIVE MinifyLines(_, _, _, _)
MinifyLines(lines, fence_char, in_html_comment, output_lines) ==
    IF lines = <<>> THEN output_lines
    ELSE
    LET line == Head(lines)
        current_fence_char == line_starts_fence(line)
        r == strip_html_comments_from_line(line, in_html_comment)
        stripped_line == r.text
        normalized_line ==
            IF IsHardBreak(stripped_line)
            THEN stripped_line
            ELSE rstrip(stripped_line, {" ", "\t"})
        dropped == \/ strip(normalized_line) = <<>>
                   \/ HyphensOnly(strip(normalized_line))
    IN  IF fence_char # NULL
        THEN MinifyLines(Tail(lines),
                         IF line_closes_fence(line, fence_char)
                         THEN NULL ELSE fence_char,
                         in_html_comment,
                         Append(output_lines, FencedLine(line)))
        ELSE IF current_fence_char # NULL
        THEN MinifyLines(Tail(lines), current_fence_char, in_html_comment,
                         Append(output_lines, FencedLine(line)))
        ELSE MinifyLines(Tail(lines), NULL, r.in_comment,
                         IF dropped THEN output_lines
                         ELSE Append(output_lines, normalized_line))

minify_markdown(text) ==
    LET had_trailing_newline == EndsWith(text, <<"\n">>)
        minified == Join(MinifyLines(Split(text), NULL, FALSE, <<>>))
    IN  IF had_trailing_newline /\ minified # <<>>
        THEN minified \o <<"\n">> ELSE minified

\* ------------------------------------------------------- rate limiting
Window == 60

\* The rate limits a Scraper is constructed with; 0 disables the limiter.
RateLimits == {0, 1, 2}

\* Seconds that may pass between two readings of the clock.
Durations == {0, 30}

\* Variant: the limiter lets one more request through.
RateLimitReached_late(count, limit) == count > limit

\* if request_count >= self.rate_limit
RateLimitReached(count, limit) == count >= limit

\* A Scraper with some rate_limit starts its run on a new store: the
\* tracking variables.
RateInit ==
    /\ pc = "idle"
    /\ rate_limit' \in RateLimits
    /\ request_count' = 0
    /\ start_time' = 0
    /\ now' = 0
    /\ gets' = <<>>
    /\ window_gets' = 0
    /\ window_resets' = 0
    /\ sleeps' = 0

\* The rate-limit check at the top of the loop body, followed by the GET
\* when the link gets that far (get). time.sleep may return late.
RateLimitCheck(get) ==
    \E passed \in Durations : \E late \in Durations :
        LET current_time == now + passed
            elapsed_time == current_time - start_time
            reached == rate_limit > 0
                          /\ RateLimitReached(request_count, rate_limit)
            sleep_time == Window - elapsed_time
            sleeping == reached /\ sleep_time > 0
            after == IF sleeping THEN current_time + sleep_time + late
                     ELSE current_time
            n == IF get THEN 1 ELSE 0
        IN  /\ now' = after
            /\ start_time' = IF reached THEN after ELSE start_time
            /\ request_count' = (IF reached THEN 0 ELSE request_count) + n
            /\ gets' = IF get THEN Append(gets, after) ELSE gets
            /\ window_gets' = (IF reached THEN 0 ELSE window_gets) + n
            /\ window_resets' = window_resets + (IF reached THEN 1 ELSE 0)
            /\ sleeps' = IF sleeping THEN sleeps + 1 ELSE sleeps
            /\ rate_limit' = rate_limit

PageB == URL("http", "ex.com", <<"b">>, "")
PageC == URL("http", "ex.com", <<"c">>, "")

\* start_scraping(urls_list=urls) with more URLs than any rate limit tried.
StartScrapingMany == Begin(ValidatedUrls({RawRoot, PageA, PageB, PageC}), TRUE)

NextRate ==
    \/ StartScrapingMany /\ RateInit /\ UNCHANGED <<aux_retry, aux_store, aux_minify, aux_api, aux_file, aux_export, aux_skip>>
    \/ StartScrapingUrl /\ RateInit /\ UNCHANGED <<aux_retry, aux_store, aux_minify, aux_api, aux_file, aux_export, aux_skip>>
    \/ ReadBatch /\ Steady
    \/ ProcessLinkSkip /\ RateLimitCheck(FALSE)
           /\ UNCHANGED <<aux_retry, aux_store, aux_minify, aux_api, aux_file, aux_export, aux_skip>>
    \/ ProcessLinkFetch /\ RateLimitCheck(TRUE)
           /\ UNCHANGED <<aux_retry, aux_store, aux_minify, aux_api, aux_file, aux_export, aux_skip>>
    \/ UpsertPages /\ Steady
    \/ InsertDiscovered /\ Steady
    \/ MarkVisited /\ Steady

\* start_scraping runs with the clock and the rate limiter.
SpecRate == Init /\ [][NextRate]_vars

\* --------------------------------------------------- minifying a text
MaxLines == 3

InputLines ==
    {<<>>,
     <<"a">>,
     <<"a", " ">>,
     <<"a", "\t">>,
     <<"a", " ", " ">>,
     <<"a", " ", " ", " ">>,
     <<"a", " ">> \o CommentStart \o <<"c">> \o CommentEnd \o <<" ">>,
     <<"a", "\r">>,
     Backticks,
     <<" ">> \o Backticks \o <<"p">>,
     Tildes,
     <<"-", "-", "-">>,
     CommentStart,
     CommentEnd,
     CommentStart \o <<"c">> \o CommentEnd,
     CommentStart \o <<"c">> \o CommentEnd \o Backticks,
     <<"<", "!">> \o CommentStart \o CommentEnd \o <<"-", "-">>}

\* The texts of at most max lines, with or without a final newline.
Contents(max) ==
    LET bodies == UNION {[1..n -> InputLines] : n \in 0..max}
    IN  {Join(b) : b \in bodies} \cup {Join(b) \o <<"\n">> : b \in bodies}

InitMinify ==
    /\ InitCrawl
    /\ buffer \in Contents(MaxLines)
    /\ once = <<>>
    /\ twice = <<>>
    /\ minify_pc = "input"

MinifyOnce ==
    /\ minify_pc = "input"
    /\ once' = minify_markdown(buffer)
    /\ minify_pc' = "once"
    /\ UNCHANGED <<buffer, twice>>
    /\ UNCHANGED <<store, crawl, aux_retry, aux_store, aux_rate, aux_api, aux_file, aux_export, aux_skip>>

MinifyTwice ==
    /\ minify_pc = "once"
    /\ twice' = minify_markdown(once)
    /\ minify_pc' = "twice"
    /\ UNCHANGED <<buffer, once>>
    /\ UNCHANGED <<store, crawl, aux_retry, aux_store, aux_rate, aux_api, aux_file, aux_export, aux_skip>>

NextMinify == MinifyOnce \/ MinifyTwice

\* _minify_markdown applied to a text, and again to the result.
SpecMinify == InitMinify /\ [][NextMinify]_vars

\* ------------------------------------- the store alone, with failures
StoreUrls == {Root, PageA}

\* insert_links called directly.
DbInsertLinks ==
    /\ \E U \in SUBSET StoreUrls \ {{}} : links' = insert_links(links, U, FALSE)
    /\ UNCHANGED <<pages, crawl, aux>>

UpsertArgs ==
    {<<>>,
     <<PageRow(PageA, NULL, failed_scrape_metadata("failed", "E", "boom"))>>,
     <<PageRow(PageA, NULL, failed_scrape_metadata("failed", "E", "boom")),
       PageRow(Root, "# MD", [scrape_status |-> "ok"]),
       PageRow(PageA, "# MD", [scrape_status |-> "ok"])>>}

VisitedArgs == {<<>>, <<Root, PageA>>}
RetryArgs == {<<>>, <<PageA>>}

\* commit_crawl_batch called directly; any one of its statements may raise.
DbCommitCrawlBatchCall ==
    \E P \in UpsertArgs : \E V \in VisitedArgs :
    \E I \in RetryArgs : \E R \in RetryArgs :
        LET stmts == Statements(P, V, I, R)
        IN  \E fail_at \in 0..Len(stmts) :
            /\ \A x \in Range(I) \cap DOMAIN links :
                   links[x].retry_count < max_retries
            /\ LET res == with_conn(store, ExecuteAll(stmts, store, fail_at))
               IN  /\ links' = res[1]
                   /\ pages' = res[2]
            /\ db_call' = [n |-> 1 - db_call.n, fail_at |-> fail_at,
                           pages_upsert |-> P, visited_updates |-> V,
                           retry_increments |-> I, retry_resets |-> R]
            /\ UNCHANGED <<crawl, aux_retry, aux_rate, aux_minify, aux_api, aux_file, aux_export, aux_skip>>

NextStore == DbInsertLinks \/ DbCommitCrawlBatchCall

\* Only direct calls on the store, no crawl.
SpecStore == Init /\ [][NextStore]_vars

\* ------------------------------------- the operations of the store
ListArgs == {<<>>, <<Root>>, <<PageB>>, <<PageA, Root, PageA>>}

\* What every operation that reaches the connection does once it is closed.
Raises(op, urls_arg, limit, error) ==
    /\ db_result' = Result(1 - db_result.n, op, urls_arg, limit, 0, <<>>, error)
    /\ UNCHANGED <<store, closed>>

\* insert_links(urls)
ApiInsertLinks ==
    \E urls \in ListArgs :
        IF urls = <<>>
        THEN /\ db_result' = Result(1 - db_result.n, "insert_links", urls,
                                    NoLimit, 0, <<>>, "")
             /\ UNCHANGED <<store, closed>>
        ELSE IF closed
        THEN Raises("insert_links", urls, NoLimit, "ProgrammingError")
        ELSE LET run == InsertEach([links |-> links, total_changes |-> 0],
                                   urls, FALSE)
             IN  /\ links' = run.links
                 /\ db_result' = Result(1 - db_result.n, "insert_links", urls,
                                        NoLimit, run.total_changes, <<>>, "")
                 /\ UNCHANGED <<pages, closed>>

\* mark_links_visited(urls)
ApiMarkLinksVisited ==
    \E urls \in ListArgs :
        IF urls = <<>>
        THEN /\ db_result' = Result(1 - db_result.n, "mark_links_visited", urls,
                                    NoLimit, 0, <<>>, "")
             /\ UNCHANGED <<store, closed>>
        ELSE IF closed
        THEN Raises("mark_links_visited", urls, NoLimit, "ProgrammingError")
        ELSE /\ links' = mark_links_visited(links, Range(urls))
             /\ db_result' = Result(1 - db_result.n, "mark_links_visited", urls,
                                    NoLimit, 0, <<>>, "")
             /\ UNCHANGED <<pages, closed>>

Limits == {Limit(TRUE, v) : v \in -1..3} \cup {Limit(FALSE, 2)}

\* get_unvisited_links(limit): the limit is validated before the
\* connection is used.
ApiGetUnvisitedLinks ==
    \E limit \in Limits :
        IF ~limit.is_int
        THEN Raises("get_unvisited_links", <<>>, limit, "ValueError")
        ELSE IF limit.val < 0
        THEN Raises("get_unvisited_links", <<>>, limit, "ValueError")
        ELSE IF closed
        THEN Raises("get_unvisited_links", <<>>, limit, "ProgrammingError")
        ELSE \E rows \in get_unvisited_links(links, limit.val) :
                /\ db_result' = Result(1 - db_result.n, "get_unvisited_links",
                                       <<>>, limit, 0, rows, "")
                /\ UNCHANGED <<store, closed>>

\* The rows of a query in the orders SQLite may give them.
Orders(S) ==
    LET k == Cardinality(S)
    IN  {s \in [1..k -> S] : \A i, j \in 1..k : s[i] = s[j] => i = j}

\* get_retriable_failed_urls(max_retries)
ApiGetRetriableFailedUrls ==
    \E limit \in {Limit(TRUE, v) : v \in 0..max_retries} :
        IF closed
        THEN Raises("get_retriable_failed_urls", <<>>, limit, "ProgrammingError")
        ELSE \E rows \in Orders(get_retriable_failed_urls(links, pages, limit.val)) :
                /\ db_result' = Result(1 - db_result.n,
                                       "get_retriable_failed_urls", <<>>, limit,
                                       0, rows, "")
                /\ UNCHANGED <<store, closed>>

PageArgs ==
    {<<>>,
     <<PageRow(Root, "# MD", [scrape_status |-> "ok"])>>,
     <<PageRow(PageB, NULL, failed_scrape_metadata("failed", "E", "boom")),
       PageRow(PageA, "# MD", [scrape_status |-> "ok"])>>}

\* upsert_pages(pages); the rows are counted in the result.
ApiUpsertPages ==
    \E rows \in PageArgs :
        IF rows = <<>>
        THEN /\ db_result' = Result(1 - db_result.n, "upsert_pages", <<>>,
                                    NoLimit, 0, <<>>, "")
             /\ UNCHANGED <<store, closed>>
        ELSE IF closed
        THEN Raises("upsert_pages", <<>>, NoLimit, "ProgrammingError")
        ELSE /\ pages' = upsert_pages(pages, rows)
             /\ db_result' = Result(1 - db_result.n, "upsert_pages", <<>>,
                                    NoLimit, Len(rows), <<>>, "")
             /\ UNCHANGED <<links, closed>>

\* commit_crawl_batch: with self.conn is entered whatever the arguments.
ApiCommitCrawlBatch ==
    IF closed
    THEN Raises("commit_crawl_batch", <<>>, NoLimit, "ProgrammingError")
    ELSE /\ DbCommitCrawlBatch
         /\ db_result' = Result(1 - db_result.n, "commit_crawl_batch", <<>>,
                                NoLimit, 0, <<>>, "")
         /\ UNCHANGED closed

\* close(): a second call returns at once.
ApiClose ==
    /\ closed' = TRUE
    /\ db_result' = Result(1 - db_result.n, "close", <<>>, NoLimit, 0, <<>>, "")
    /\ UNCHANGED store

ApiRest == UNCHANGED <<crawl, aux_retry, aux_store, aux_rate, aux_minify, aux_file, aux_export, aux_skip>>

NextApi ==
    \/ ApiInsertLinks /\ ApiRest
    \/ ApiMarkLinksVisited /\ ApiRest
    \/ ApiGetUnvisitedLinks /\ ApiRest
    \/ ApiGetRetriableFailedUrls /\ ApiRest
    \/ ApiUpsertPages /\ ApiRest
    \/ ApiCommitCrawlBatch /\ ApiRest
    \/ ApiClose /\ ApiRest

\* The operations of one DatabaseManager called in any order.
SpecApi == Init /\ [][NextApi]_vars

\* ---------------------------------------------------------- properties
\* The batch read last has been persisted: the loop is back at its top.
BatchPersisted == pc = "read" /\ unvisited_links # <<>>

IsSuccess(r) ==
    r.kind = "response" /\ r.status = 200 /\ r.ctype = "text/html"
        /\ r.markdown # ""

IsPermanentSkip(r) ==
    r.kind = "response"
        /\ (r.status \in 400..499 \/ (r.status = 200 /\ r.ctype # "text/html"))

FailureRow(cls, msg) ==
    [content |-> NULL,
     metadata |-> [scrape_status |-> "failed", error_type |-> cls,
                   error_message |-> msg]]

\* C1: the deltas of a batch are persisted by one transaction: there is no
\* store state in which the page upserts of a batch are committed and its
\* visited updates are not.
C1_BatchInOneTransaction ==
    ~(/\ pc \in {"insert_links", "mark_links_visited"}
      /\ pages_to_upsert # <<>>
      /\ pages = upsert_pages(pages0, pages_to_upsert)
      /\ \E u \in Range(links_to_mark_visited) : ~links[u].visited)

\* C2: in every store state, no unvisited link has a page row with
\* non-null content.
C2_UnvisitedHasNoContent ==
    \A u \in DOMAIN links \cap DOMAIN pages :
        ~links[u].visited => pages[u].content = NULL

\* C3: every URL with a row in pages has a row in links.
C3_PagesHaveLinks == DOMAIN pages \subseteq DOMAIN links

C3_Witness ==
    /\ Root \in DOMAIN pages
    /\ PageA \in DOMAIN pages
    /\ pages[PageA].content = NULL
    /\ pages[Root].content # NULL

\* C4: a run that is not killed leaves the frontier loop, and when
\* start_scraping has returned no link is unvisited.
C4_LoopEndsWithEmptyFrontier ==
    /\ [](pc = "returned" => Unvisited(links) = {})
    /\ (~Idle ~> pc = "returned")

C4_Witness ==
    /\ pc = "returned"
    /\ {Root, PageA, PageX} \subseteq DOMAIN links
    /\ fetched = {Root, PageA}

\* C5: a URL that was visited with non-null content at the end of a run is
\* not GET-requested by a later run.
C5_ScrapedNotRefetched == ~Idle => fetched \cap scraped = {}

C5_Witness ==
    /\ ~Idle
    /\ Root \in scraped
    /\ PageA \in fetched
    /\ Root \in DOMAIN links0 /\ links0[Root].visited

\* C6: after a batch is persisted, a URL whose GET raised a network
\* exception is visited, its retry_count is one more than before, and its
\* page row has NULL content and the failure metadata of the exception.
C6_ExceptionCountsRetry ==
    BatchPersisted =>
        \A u \in DOMAIN responses :
            responses[u].kind = "exception" =>
                /\ links[u].visited
                /\ links[u].retry_count = links0[u].retry_count + 1
                /\ normalize_url(u) \in DOMAIN pages
                /\ pages[normalize_url(u)] =
                       FailureRow(responses[u].cls, responses[u].msg)

\* C7: after a batch is persisted, a URL whose GET returned a 5xx status is
\* visited, its retry_count is one more than before, and its page row has
\* NULL content and failure metadata.
C7_ServerErrorCountsRetry ==
    BatchPersisted =>
        \A u \in DOMAIN responses :
            (responses[u].kind = "response" /\ responses[u].status \in 500..599) =>
                /\ links[u].visited
                /\ links[u].retry_count = links0[u].retry_count + 1
                /\ normalize_url(u) \in DOMAIN pages
                /\ pages[normalize_url(u)].content = NULL
                /\ pages[normalize_url(u)].metadata.scrape_status = "failed"

\* C8: after a batch is persisted, a URL whose GET returned a 4xx status or
\* a 2xx that is not text/html is visited, its retry_count is what it was,
\* and its page row is neither inserted nor modified.
C8_PermanentSkipWritesNoPage ==
    BatchPersisted =>
        \A u \in DOMAIN responses :
            IsPermanentSkip(responses[u]) =>
                /\ links[u].visited
                /\ links[u].retry_count = links0[u].retry_count
                /\ (normalize_url(u) \in DOMAIN pages
                        <=> normalize_url(u) \in DOMAIN pages0)
                /\ (normalize_url(u) \in DOMAIN pages
                        => pages[normalize_url(u)] = pages0[normalize_url(u)])

C8_Witness ==
    /\ BatchPersisted
    /\ \E u \in DOMAIN responses :
        /\ responses[u] = Resp(404, "text/html", "")
        /\ u \in DOMAIN pages0
    /\ \E u \in DOMAIN responses :
        /\ responses[u] = Resp(200, "application/pdf", "")
        /\ u \notin DOMAIN pages

\* C9: after a batch is persisted, a URL scraped successfully in it has
\* retry_count 0 whatever it was before, is visited, and its page row holds
\* the Markdown.
C9_SuccessResetsRetry ==
    BatchPersisted =>
        \A u \in DOMAIN responses :
            IsSuccess(responses[u]) =>
                /\ links[u].retry_count = 0
                /\ links[u].visited
                /\ normalize_url(u) \in DOMAIN pages
                /\ pages[normalize_url(u)].content = responses[u].markdown

\* C10: the requeue phase makes unvisited exactly the URLs of
\* get_retriable_failed_urls(max_retries) that validate; a URL with a failed
\* page and retry_count >= max_retries is not queued again and not requested.
AfterRequeue == pc = "read" /\ unvisited_links = <<>> /\ fetched = {}

Exhausted(u) ==
    /\ u \in DOMAIN links \cap DOMAIN pages
    /\ pages[u].content = NULL
    /\ links[u].retry_count >= max_retries

C10_RequeueOnlyRetriable ==
    /\ AfterRequeue =>
          requeued = Requeued(get_retriable_failed_urls(links, pages, max_retries))
    /\ ~Idle => \A u \in requeued \cup fetched : ~Exhausted(u)


\* C11: a URL whose every fetch ends in a retriable failure is GET-requested
\* by at most max_retries runs.
C11_AttemptsBounded ==
    \A u \in DOMAIN failed_runs : failed_runs[u] <= max_retries

\* C12: after a run in which the fetch of a URL raised a network exception
\* for the first time, its link is (visited, retry_count 1) and its page has
\* NULL content; after the next run, in which the fetch succeeds, the page
\* holds the Markdown, the link is (visited, retry_count 0) and the URL is
\* not among the failed pages.
C12_RetryThenSuccess ==
    pc = "returned" =>
        \A u \in fetched :
            /\ (/\ u \in DOMAIN failed_runs /\ failed_runs[u] = 1
                /\ u \in DOMAIN pages
                /\ pages[u].metadata = failed_scrape_metadata(
                       "failed", ConnectionError.cls, ConnectionError.msg))
               => /\ links[u] = [visited |-> TRUE, retry_count |-> 1]
                  /\ pages[u].content = NULL
            /\ (/\ u \in requeued
                /\ u \in DOMAIN pages /\ pages[u].content # NULL)
               => /\ links[u] = [visited |-> TRUE, retry_count |-> 0]
                  /\ u \notin get_failed_page_urls(pages)


\* C14: the seed phase, in both forms, inserts into links only normalized
\* URLs that pass is_valid_link.
C14_SeedsAreFiltered ==
    [][(Idle /\ ~Idle') =>
          \A u \in DOMAIN links' \ DOMAIN links :
              NormalizeOk(u) /\ normalize_url(u) = u /\ is_valid_link(u)]_vars

\* C15: every URL that link discovery collects or inserts during a batch
\* passes is_valid_link, and none matches an exclude pattern.
C15_DiscoveredAreValid ==
    (~Idle /\ unvisited_links # <<>>) =>
        \A u \in (DOMAIN links \ DOMAIN links0) \cup all_discovered_links :
            is_valid_link(u) /\ ~PatternMatch(exclude_patterns, u)

C15_Witness ==
    /\ pc = "mark_links_visited"
    /\ Root \in DOMAIN responses /\ IsSuccess(responses[Root])
    /\ PageX \in Anchors(Root)
    /\ PageA \in DOMAIN links \ DOMAIN links0
    /\ PageX \notin DOMAIN links

\* C16: in a run given a urls_list no step after the seed and requeue phases
\* adds a link, and those phases add only validated seeds and requeued URLs.
C16_ListModeDiscoversNothing ==
    [][/\ (urls_list /\ ~Idle) => DOMAIN links' = DOMAIN links
       /\ (Idle /\ ~Idle' /\ urls_list') =>
              DOMAIN links' \subseteq
                  DOMAIN links \cup ValidatedUrls(SeedInputs) \cup requeued']_vars

C16_Witness ==
    /\ BatchPersisted
    /\ urls_list
    /\ Root \in DOMAIN responses /\ IsSuccess(responses[Root])
    /\ PageA \in extract_links_from_soup(Root)
    /\ PageA \notin DOMAIN links


\* C13: a commit_crawl_batch call in which a statement raises leaves links
\* and pages exactly as they were; a call that returns has applied the page
\* upserts, the visited updates, the retry increments and the retry resets.
C13_CommitAllOrNothing ==
    [][db_call'.n # db_call.n =>
          LET c == db_call'
              P == c.pages_upsert
              LastRow(u) ==
                  P[CHOOSE i \in 1..Len(P) :
                        P[i].url = u /\ \A j \in (i+1)..Len(P) : P[j].url # u]
          IN  IF c.fail_at # 0
              THEN links' = links /\ pages' = pages
              ELSE /\ DOMAIN links' = DOMAIN links
                   /\ \A u \in DOMAIN links :
                       /\ links'[u].visited =
                              (links[u].visited \/ u \in Range(c.visited_updates))
                       /\ links'[u].retry_count =
                              IF u \in Range(c.retry_resets) THEN 0
                              ELSE IF u \in Range(c.retry_increments)
                                   THEN links[u].retry_count + 1
                                   ELSE links[u].retry_count
                   /\ DOMAIN pages' = DOMAIN pages \cup {P[i].url : i \in 1..Len(P)}
                   /\ \A u \in DOMAIN pages' :
                       IF \E i \in 1..Len(P) : P[i].url = u
                       THEN /\ pages'[u].content = LastRow(u).content
                            /\ pages'[u].metadata = LastRow(u).metadata
                       ELSE pages'[u] = pages[u]]_vars

\* The last statement of a call raised after its page upserts and visited
\* updates had statements to apply, and the store shows none of them.
C13_Witness ==
    /\ db_call.fail_at = Len(Statements(db_call.pages_upsert,
                                        db_call.visited_updates,
                                        db_call.retry_increments,
                                        db_call.retry_resets))
    /\ db_call.pages_upsert # <<>>
    /\ db_call.retry_resets # <<>>
    /\ PageA \in Range(db_call.visited_updates)
    /\ PageA \in DOMAIN links /\ ~links[PageA].visited
    /\ PageA \notin DOMAIN pages


\* C17: with rate_limit > 0 the GETs issued since the last reset of the
\* counter never exceed rate_limit, and a step resets the counter and the
\* window start only when the counter had reached rate_limit, and it leaves
\* the clock at least 60 seconds after the old window start.
C17_WindowProtocol ==
    [][/\ rate_limit' > 0 => window_gets' <= rate_limit'
       /\ window_resets' = window_resets + 1 =>
              /\ request_count >= rate_limit
              /\ now' - start_time >= Window
              /\ start_time' = now']_vars

\* The limiter slept for the rest of the window, reset, and the next GET
\* went out in the new window.
C17_Witness ==
    /\ rate_limit = 2
    /\ sleeps = 1 /\ window_resets = 1
    /\ Len(gets) = 4
    /\ gets[3] - gets[1] >= Window
    /\ window_gets = 2

\* C18: with rate_limit > 0, no 60 seconds of a run hold more than rate_limit
\* GETs; with rate_limit = 0 the limiter never sleeps.
C18_AtMostRateLimitPerMinute ==
    /\ rate_limit > 0 =>
          \A i \in 1..Len(gets) :
              Cardinality({j \in 1..Len(gets) :
                              gets[i] <= gets[j] /\ gets[j] < gets[i] + Window})
                  <= rate_limit
    /\ rate_limit = 0 => sleeps = 0


\* C19: minifying a second time changes nothing:
\* _minify_markdown(_minify_markdown(x)) = _minify_markdown(x).
C19_MinifyIdempotent ==
    minify_pc = "twice" => twice = once

\* A line that begins a fenced block when none is open, or ends the open
\* one: after leading spaces it begins with three backquotes or three tildes.
FenceMarker(line) ==
    LET rest == lstrip(line, {" "})
    IN  IF Len(rest) >= 3 /\ rest[1] = rest[2] /\ rest[2] = rest[3]
              /\ rest[1] \in {"bq", "~"}
        THEN rest[1] ELSE NULL

\* The fence open after the first n lines (NULL: none), a block being closed
\* only by a marker of the character that opened it.
RECURSIVE OpenFence(_, _)
OpenFence(lines, n) ==
    IF n = 0 THEN NULL
    ELSE LET before == OpenFence(lines, n - 1)
             marker == FenceMarker(lines[n])
         IN  IF before = NULL THEN marker
             ELSE IF marker = before THEN NULL ELSE before

\* The lines of fenced blocks, from opening to closing line or end of input.
FencedLines(lines) ==
    LET fenced == {i \in 1..Len(lines) :
                      OpenFence(lines, i - 1) # NULL \/ FenceMarker(lines[i]) # NULL}
        Pick[i \in 0..Len(lines)] ==
            IF i = 0 THEN <<>>
            ELSE IF i \in fenced THEN Append(Pick[i - 1], lines[i])
            ELSE Pick[i - 1]
    IN  Pick[Len(lines)]

\* The lines of part occur in whole, in the same order.
RECURSIVE IsSubsequence(_, _)
IsSubsequence(part, whole) ==
    IF part = <<>> THEN TRUE
    ELSE IF whole = <<>> THEN FALSE
    ELSE IF Head(part) = Head(whole) THEN IsSubsequence(Tail(part), Tail(whole))
    ELSE IsSubsequence(part, Tail(whole))

\* C20: every input line of a fenced block, from the opening line to the
\* closing line or the end of the input, is in the output unchanged, the
\* lines in their input order.
C20_FencedLinesVerbatim ==
    minify_pc # "input" =>
        IsSubsequence(FencedLines(Split(buffer)), Split(once))

\* A fenced block holding a line with trailing blanks, a comment and a
\* hyphen-only line has been minified.
C20_Witness ==
    /\ minify_pc = "once"
    /\ \E opening \in {Backticks, Tildes} :
          Split(buffer) = <<opening, <<"a", " ", " ", " ">>,
                            CommentStart \o <<"c">> \o CommentEnd, <<>>>>


WithoutFinalNewline(text) ==
    IF EndsWith(text, <<"\n">>) THEN SubSeq(text, 1, Len(text) - 1) ELSE text

\* ---------------------------------------------------------- exports
\* Variant: a page without content is exported like any other.
SkipsPage_never(content) == FALSE

\* if content is None: continue
SkipsPage(content) == content = NULL

Part(url, content, steps) == [url |-> url, content |-> content, steps |-> steps]

\* The functions each export applies to the content of a page it writes.
Steps(op, minify) ==
    CASE op = "export_to_markdown" ->
             <<"_adjust_headers", "_cleanup_markdown">>
                 \o (IF minify THEN <<"_minify_markdown">> ELSE <<>>)
      [] op = "export_to_json" -> <<"_cleanup_markdown">>
      [] op = "export_individual_markdown" ->
             IF minify THEN <<"_minify_markdown">> ELSE <<>>

\* The loop over get_pages_iterator(): rows is the order of the cursor.
RECURSIVE Parts(_, _, _, _)
Parts(rows, pgs, op, minify) ==
    IF rows = <<>> THEN <<>>
    ELSE LET url == Head(rows)
             rest == Parts(Tail(rows), pgs, op, minify)
         IN  IF SkipsPage(pgs[url].content) THEN rest
             ELSE <<Part(url, pgs[url].content, Steps(op, minify))>> \o rest

ExportOps == {"export_to_markdown", "export_to_json", "export_individual_markdown"}

\* One export: the cursor of get_pages_iterator raises on a closed store
\* when the loop first reads it; an open store is only read.
Export(op) ==
    /\ \E minify \in BOOLEAN :
           IF closed
           THEN exported' = Exported(1 - exported.n, op, minify, <<>>,
                                     "ProgrammingError")
           ELSE \E rows \in Orders(DOMAIN pages) :
                   exported' = Exported(1 - exported.n, op, minify,
                                        Parts(rows, pages, op, minify), "")
    /\ UNCHANGED <<store, crawl, aux_retry, aux_store, aux_rate, aux_minify, aux_api, aux_file, aux_skip>>

ExportToMarkdown == Export("export_to_markdown")
ExportToJson == Export("export_to_json")
ExportIndividualMarkdown == Export("export_individual_markdown")

NextExport ==
    \/ ApiInsertLinks /\ ApiRest
    \/ ApiUpsertPages /\ ApiRest
    \/ ApiClose /\ ApiRest
    \/ ExportToMarkdown
    \/ ExportToJson
    \/ ExportIndividualMarkdown

SpecExport == Init /\ [][NextExport]_vars

\* ------------------------------------------------- opening a store
MaxOpens == 2

Tables(urls, rows) == UNION {[U -> rows] : U \in SUBSET urls}

OldLinkRows == {[visited |-> v] : v \in BOOLEAN}
NewLinkRows == {[visited |-> v, retry_count |-> n] : v \in BOOLEAN, n \in 0..max_retries}
StoredPages == {EmptyFn, upsert_pages(EmptyFn, <<PageRow(Root, "# MD", [scrape_status |-> "ok"])>>)}

\* The files a run can find at db_path: none, one written under the schema
\* without retry_count (with or without a pages table), one written under
\* the present schema.
Files ==
    {NoFile}
      \cup {File({"links"}, OldColumns, t, EmptyFn) : t \in Tables(StoreUrls, OldLinkRows)}
      \cup {File({"links", "pages"}, OldColumns, t, p) :
                t \in Tables(StoreUrls, OldLinkRows), p \in StoredPages}
      \cup {File({"links", "pages"}, NewColumns, t, p) :
                t \in Tables(StoreUrls, NewLinkRows), p \in StoredPages}

\* The file at db_path before the first DatabaseManager is built on it.
ExistingFile ==
    /\ opens = 0
    /\ file = NoFile
    /\ file' \in Files \ {NoFile}
    /\ UNCHANGED <<opens, store, crawl, aux_retry, aux_store, aux_rate, aux_minify, aux_api, aux_export, aux_skip>>

\* DatabaseManager.__init__: connect, create_tables, _migrate_schema.
Open ==
    /\ opens < MaxOpens
    /\ file' = migrate_schema(create_tables(file))
    /\ opens' = opens + 1
    /\ UNCHANGED <<store, crawl, aux_retry, aux_store, aux_rate, aux_minify, aux_api, aux_export, aux_skip>>

NextOpen == ExistingFile \/ Open

SpecOpen == Init /\ [][NextOpen]_vars

\* C21: when a comment start outside a fence has no comment end after it,
\* nothing of the following lines is in the output, fence markers included:
\* the output is that of the text cut after the line of the comment start.
C21_UnterminatedCommentDropsRest ==
    minify_pc # "input" =>
        LET lines == Split(buffer)
            starts == {k \in 1..Len(lines) :
                          /\ OpenFence(lines, k - 1) = NULL
                          /\ FenceMarker(lines[k]) = NULL
                          /\ Find(lines[k], CommentStart, 1) # 0}
        IN  (Find(buffer, CommentEnd, 1) = 0 /\ starts # {}) =>
                LET k == CHOOSE i \in starts : \A j \in starts : i <= j
                IN  WithoutFinalNewline(once)
                        = minify_markdown(Join(SubSeq(lines, 1, k)))


\* The blanks (spaces and tabs) at the end of a line.
RECURSIVE TrailingBlanks(_)
TrailingBlanks(line) ==
    IF line = <<>> \/ line[Len(line)] \notin {" ", "\t"} THEN 0
    ELSE 1 + TrailingBlanks(SubSeq(line, 1, Len(line) - 1))

\* The line ends with two spaces and the character before them is no space.
ExactlyTwoSpaces(line) ==
    /\ Len(line) >= 2
    /\ line[Len(line)] = " " /\ line[Len(line) - 1] = " "
    /\ (Len(line) >= 3 => line[Len(line) - 2] # " ")

\* What the hard-break rule makes of a line whose comments are stripped.
HardBreakForm(line) ==
    IF ExactlyTwoSpaces(line) THEN line
    ELSE SubSeq(line, 1, Len(line) - TrailingBlanks(line))

\* C22: outside fences a line, its comments stripped, is emitted with its
\* trailing white space when it ends with exactly two spaces, and with all
\* trailing spaces and tabs removed otherwise. Stated for texts without a
\* fence and without a comment left open at the end of a line.
C22_HardBreakPrecision ==
    minify_pc # "input" =>
        LET lines == Split(buffer)
            stripped == [i \in 1..Len(lines) |->
                            strip_html_comments_from_line(lines[i], FALSE)]
            plain == \A i \in 1..Len(lines) :
                        FenceMarker(lines[i]) = NULL /\ ~stripped[i].in_comment
            emitted == {i \in 1..Len(lines) :
                           LET t == strip(stripped[i].text)
                           IN  t # <<>> /\ ~HyphensOnly(t)}
            wanted == {HardBreakForm(stripped[i].text) : i \in emitted}
            out == Split(WithoutFinalNewline(once))
        IN  plain =>
                /\ emitted # {} => Range(out) = wanted
                /\ emitted = {} => once = <<>>

C22_Witness ==
    /\ minify_pc = "once"
    /\ Split(buffer) = <<<<"a", " ", " ", " ">>,
                         <<"a", " ">> \o CommentStart \o <<"c">> \o CommentEnd
                             \o <<" ">>,
                         <<"a", "\t">>>>
    /\ once = <<"a", "\n", "a", " ", " ", "\n", "a">>


\* C23: insert_links inserts the URLs of its argument that have no row,
\* unvisited and with retry_count 0, returns how many rows it inserted (a
\* repeated URL counting once) and leaves the existing rows as they are; so
\* a call with the argument of the call before it returns 0.
C23_InsertLinksIdempotent ==
    [][(db_result'.n # db_result.n /\ db_result'.op = "insert_links"
            /\ db_result'.error = "") =>
          LET L == Range(db_result'.urls_arg)
          IN  /\ DOMAIN links' = DOMAIN links \cup L
              /\ \A u \in DOMAIN links : links'[u] = links[u]
              /\ \A u \in L \ DOMAIN links :
                     links'[u] = [visited |-> FALSE, retry_count |-> 0]
              /\ db_result'.count = Cardinality(L \ DOMAIN links)
              /\ (db_result.op = "insert_links" /\ db_result.error = ""
                      /\ ~closed /\ db_result.urls_arg = db_result'.urls_arg)
                     => db_result'.count = 0 /\ links' = links]_vars

\* A list with a repeated URL was inserted into a store that had one of its
\* URLs, visited, and then inserted again.
C23_Witness ==
    /\ db_result.op = "insert_links"
    /\ db_result.urls_arg = <<PageA, Root, PageA>>
    /\ db_result.count = 0
    /\ DOMAIN links = {PageA, Root}
    /\ links[Root].visited /\ ~links[PageA].visited


\* C24: get_unvisited_links(limit) returns at most limit URLs, each of a
\* different unvisited link, and all the unvisited links when they are no
\* more than limit (so none for limit 0); a negative limit or one that is no
\* integer raises an error; the call changes nothing in either case.
C24_UnvisitedLinksLimit ==
    [][(db_result'.n # db_result.n /\ db_result'.op = "get_unvisited_links") =>
          LET r == db_result'
              U == {u \in DOMAIN links : ~links[u].visited}
          IN  /\ links' = links /\ pages' = pages
              /\ (~r.limit.is_int \/ r.limit.val < 0) =>
                     r.error # "" /\ r.urls = <<>>
              /\ (r.limit.is_int /\ r.limit.val >= 0 /\ ~closed) =>
                     /\ r.error = ""
                     /\ Len(r.urls) <= r.limit.val
                     /\ Range(r.urls) \subseteq U
                     /\ \A i, j \in 1..Len(r.urls) :
                            r.urls[i] = r.urls[j] => i = j
                     /\ Cardinality(U) <= r.limit.val => Range(r.urls) = U]_vars

\* A limit smaller than the number of unvisited links cut the answer short,
\* with a visited link in the store as well.
C24_Witness ==
    /\ db_result.op = "get_unvisited_links"
    /\ db_result.limit = Limit(TRUE, 1)
    /\ Len(db_result.urls) = 1
    /\ Cardinality({u \in DOMAIN links : ~links[u].visited}) = 2
    /\ \E u \in DOMAIN links : links[u].visited


\* C25: get_retriable_failed_urls(max_retries) returns, each once, the URLs
\* that have a page row with NULL content and a link row with retry_count
\* below max_retries, and no other URL.
C25_RetriableFailedUrls ==
    [][(db_result'.n # db_result.n
            /\ db_result'.op = "get_retriable_failed_urls"
            /\ db_result'.error = "") =>
          LET r == db_result'
          IN  /\ \A i, j \in 1..Len(r.urls) : r.urls[i] = r.urls[j] => i = j
              /\ \A u \in {Root, PageA, PageB} :
                     u \in Range(r.urls) <=>
                         /\ u \in DOMAIN pages /\ pages[u].content = NULL
                         /\ u \in DOMAIN links
                         /\ links[u].retry_count < r.limit.val
              /\ Range(r.urls) \subseteq {Root, PageA, PageB}
              /\ links' = links /\ pages' = pages]_vars

\* One call told apart a retriable URL, a URL at the limit, a page with
\* content and a failed page without a link row.
C25_Witness ==
    /\ db_result.op = "get_retriable_failed_urls"
    /\ db_result.limit = Limit(TRUE, 1)
    /\ db_result.urls = <<PageB>>
    /\ PageA \in DOMAIN pages /\ pages[PageA].content = NULL
    /\ PageA \in DOMAIN links /\ links[PageA].retry_count = 1
    /\ Root \in DOMAIN pages /\ pages[Root].content # NULL
    /\ Root \in DOMAIN links

C25_WitnessNoLink ==
    /\ db_result.op = "get_retriable_failed_urls"
    /\ db_result.urls = <<>>
    /\ db_result.limit = Limit(TRUE, 2)
    /\ PageB \in DOMAIN pages /\ pages[PageB].content = NULL
    /\ PageB \notin DOMAIN links


\* C26: after a commit_crawl_batch call that returns, a link is visited
\* exactly when it was visited before or is named in visited_updates; a URL
\* of visited_updates, retry_increments or retry_resets that has no link
\* row still has none; and the call with four empty lists changes neither
\* table.
C26_CommitVisitedAndNoNewRows ==
    [][(db_call'.n # db_call.n /\ db_call'.fail_at = 0) =>
          LET c == db_call'
              named == Range(c.visited_updates) \cup Range(c.retry_increments)
                           \cup Range(c.retry_resets)
          IN  /\ \A u \in DOMAIN links :
                     /\ u \in DOMAIN links'
                     /\ links'[u].visited <=>
                            (links[u].visited \/ u \in Range(c.visited_updates))
              /\ \A u \in named \ DOMAIN links : u \notin DOMAIN links'
              /\ (c.pages_upsert = <<>> /\ named = {}) =>
                     links' = links /\ pages' = pages]_vars

\* A call returned whose visited_updates named a link that is now visited
\* and, like its retry_increments, a URL that has no row.
C26_Witness ==
    /\ db_call.n = 1 /\ db_call.fail_at = 0
    /\ db_call.visited_updates = <<Root, PageA>>
    /\ db_call.retry_increments = <<PageA>>
    /\ db_call.retry_resets = <<PageA>>
    /\ Root \in DOMAIN links /\ links[Root].visited
    /\ PageA \notin DOMAIN links


\* C27: a close() on a closed store changes nothing, and on a closed store
\* every other operation raises and changes no row.
C27_ClosedStoreFails ==
    [][(db_result'.n # db_result.n /\ closed) =>
          /\ closed' /\ links' = links /\ pages' = pages
          /\ db_result'.op = "close" => db_result'.error = ""
          /\ db_result'.op # "close" => db_result'.error # ""]_vars


\* C28: opening a file keeps the url and visited of every link row and
\* every page row, adds no row, leaves every link row with a retry_count
\* that is 0 for a row written without that column and the stored value
\* otherwise, and opening again changes nothing.
C28_OpenIsAdditive ==
    [][opens' # opens =>
          /\ DOMAIN file'.links = DOMAIN file.links
          /\ \A u \in DOMAIN file.links :
                 /\ file'.links[u].visited = file.links[u].visited
                 /\ "retry_count" \in DOMAIN file'.links[u]
                 /\ file'.links[u].retry_count =
                        IF "retry_count" \in DOMAIN file.links[u]
                        THEN file.links[u].retry_count ELSE 0
          /\ file'.pages = file.pages
          /\ "retry_count" \in file'.columns
          /\ {"links", "pages"} \subseteq file'.tables
          /\ opens > 0 => file' = file]_vars

\* A file with two rows written without retry_count has been opened twice.
C28_Witness ==
    /\ opens = 2
    /\ DOMAIN file.links = {Root, PageA}
    /\ file.links[Root] = [visited |-> TRUE, retry_count |-> 0]
    /\ file.links[PageA] = [visited |-> FALSE, retry_count |-> 0]
    /\ file.pages # EmptyFn


\* C29: an export, whichever of the three and with minify on or off,
\* changes no row of links or pages, and what it writes has one part for
\* each page with content and none for a page whose content is NULL.
C29_ExportReadsOnly ==
    [][exported'.n # exported.n =>
          LET e == exported'
          IN  /\ e.op \in ExportOps
              /\ links' = links /\ pages' = pages
              /\ \A i \in 1..Len(e.parts) :
                     /\ e.parts[i].url \in DOMAIN pages
                     /\ pages[e.parts[i].url].content # NULL
                     /\ e.parts[i].content = pages[e.parts[i].url].content
              /\ e.error = "" =>
                     \A u \in DOMAIN pages : pages[u].content # NULL =>
                         Cardinality({i \in 1..Len(e.parts) : e.parts[i].url = u}) = 1]_vars

\* A minifying export wrote the page with content and not the failed one,
\* from a store that also holds links.
C29_Witness ==
    /\ exported.op = "export_individual_markdown" /\ exported.minify
    /\ Len(exported.parts) = 1 /\ exported.parts[1].url = PageA
    /\ PageB \in DOMAIN pages /\ pages[PageB].content = NULL
    /\ DOMAIN links # {}


\* C30: when a run is interrupted between two URLs of a batch, what the
\* batch has collected so far is in the store once the run has ended: its
\* page rows, its visited marks and, when discovery is on, its discovered
\* links.
C30_CancelFlushesBatch ==
    [][(pc = "fetch" /\ pc' = "aborted"
            /\ todo # <<>> /\ Len(todo) < Len(unvisited_links)) =>
          /\ pages' = IF pages_to_upsert # <<>>
                      THEN upsert_pages(pages, pages_to_upsert) ELSE pages
          /\ \A u \in Range(links_to_mark_visited) \cap DOMAIN links :
                 links'[u].visited
          /\ DiscoveryEnabled(urls_list) =>
                 all_discovered_links \subseteq DOMAIN links']_vars

\* --------------------------------------------- the permanent skips
\* The history skipped over a step that requests the head of todo.
RecordSkip ==
    LET raw_url == Head(todo)
        url == normalize_url(raw_url)
    IN  skipped' = IF IsPermanentSkip(responses'[raw_url])
                   THEN skipped \cup {url} ELSE skipped

NextSkip ==
    \/ StartScrapingList /\ Steady
    \/ StartScrapingUrl /\ Steady
    \/ StartScrapingResume /\ Steady
    \/ ReadBatch /\ Steady
    \/ ProcessLinkSkip /\ Steady
    \/ ProcessLinkFetch /\ RecordSkip
           /\ UNCHANGED <<aux_retry, aux_store, aux_rate, aux_minify, aux_api, aux_file, aux_export>>
    \/ UpsertPages /\ Steady
    \/ InsertDiscovered /\ Steady
    \/ MarkVisited /\ Steady

\* start_scraping runs, none of them killed, with the permanent skips
\* recorded.
SpecSkip == Init /\ [][NextSkip]_vars

\* C31: no step removes a link row, and a step that adds link rows is
\* either the start of a run, adding seeds and re-queued failed URLs, or
\* the insertion of the links a batch discovered.
C31_LinksOnlyGrow ==
    [][LET new == DOMAIN links' \ DOMAIN links
       IN  /\ DOMAIN links \subseteq DOMAIN links'
           /\ new # {} =>
                \/ /\ Idle /\ pc' = "read"
                   /\ new \subseteq requeued'
                          \cup {normalize_url(u) : u \in {x \in SeedInputs : NormalizeOk(x)}}
                \/ /\ pc = "insert_links" /\ ~urls_list
                   /\ new \subseteq all_discovered_links]_vars

\* A batch's discovered link has been added, in a store where the start of
\* this run re-queued a failed URL.
C31_Witness ==
    /\ pc = "mark_links_visited"
    /\ DOMAIN links # DOMAIN links0
    /\ requeued # {}

\* The frontier URL does not normalize or fails is_valid_link.
FailsValidation(raw_url) ==
    ~(NormalizeOk(raw_url) /\ is_valid_link(normalize_url(raw_url)))

\* C32: processing a frontier URL that does not normalize or validate
\* issues no GET, adds nothing to the rate-limit counter and collects no
\* page row, and the end of its batch marks it visited and leaves its
\* retry_count as it was.
C32_InvalidFrontierUrlIsSkipped ==
    [][/\ (pc = "fetch" /\ todo' # todo /\ FailsValidation(Head(todo))) =>
            /\ fetched' = fetched /\ gets' = gets
            /\ request_count' <= request_count
            /\ window_gets' <= window_gets
            /\ pages_to_upsert' = pages_to_upsert
            /\ Head(todo) \in Range(links_to_mark_visited')
            /\ links' = links /\ pages' = pages
       /\ (pc = "mark_links_visited" /\ pc' = "read") =>
            \A u \in Range(unvisited_links) :
                FailsValidation(u) =>
                    /\ links'[u].visited
                    /\ links'[u].retry_count = links0[u].retry_count
                    /\ \A i \in 1..Len(pages_to_upsert) :
                           pages_to_upsert[i].url # u
                    /\ u \notin DOMAIN pages']_vars

\* A batch with an excluded URL has been persisted under a rate limit: the
\* URL is visited, was not requested and has no page row.
C32_Witness ==
    /\ pc = "read" /\ rate_limit > 0
    /\ PageX \in Range(unvisited_links)
    /\ links[PageX].visited /\ links[PageX].retry_count = 0
    /\ PageX \notin fetched /\ PageX \notin DOMAIN pages
    /\ gets = <<>>

\* C33: when the links a batch discovered are inserted, none of the batch's
\* page rows and visited marks has been written yet; and when the next
\* batch is read, every page row and visited mark of the batch before it
\* is in the store.
C33_DiscoveriesBeforeStateChanges ==
    [][/\ (pc = "insert_links" /\ pc' = "mark_links_visited"
              /\ ~urls_list /\ all_discovered_links # {}) =>
            /\ pages = pages0
            /\ \A u \in DOMAIN links0 : links[u] = links0[u]
       /\ (pc = "read" /\ pc' # "read" /\ unvisited_links # <<>>) =>
            /\ \A u \in Range(links_to_mark_visited) : links[u].visited
            /\ \A i \in 1..Len(pages_to_upsert) :
                   pages_to_upsert[i].url \in DOMAIN pages]_vars


\* C34: when the first line opens a fenced block and no later line begins
\* with the marker of the same character, every line of the input is in
\* the block: the output begins with the input lines unchanged, markers
\* of the other character and the line after the opening line included.
C34_FenceTracksItsCharacter ==
    minify_pc # "input" =>
        LET lines == Split(buffer)
            out == Split(once)
        IN  (/\ FenceMarker(lines[1]) # NULL
             /\ \A i \in 2..Len(lines) :
                    FenceMarker(lines[i]) # FenceMarker(lines[1])) =>
                /\ Len(out) >= Len(lines)
                /\ SubSeq(out, 1, Len(lines)) = lines

\* A block opened by tildes holds a backquote marker and then a line with
\* a trailing blank.
C34_Witness ==
    /\ minify_pc = "once"
    /\ Split(buffer) = <<Tildes, Backticks, <<"a", " ">>>>


\* The lines of a minified text.
EmittedLines(text) ==
    IF text = <<>> THEN <<>> ELSE Split(WithoutFinalNewline(text))

\* C35: for an input without any fence marker, every line of the output
\* is non-blank after trimming, is not made only of three or more hyphens
\* and holds no comment opener.
C35_EmittedLinesAreClean ==
    minify_pc # "input" =>
        LET lines == Split(buffer)
            out == EmittedLines(once)
        IN  (\A i \in 1..Len(lines) : FenceMarker(lines[i]) = NULL) =>
                \A j \in 1..Len(out) :
                    /\ strip(out[j]) # <<>>
                    /\ ~HyphensOnly(strip(out[j]))
                    /\ Find(out[j], CommentStart, 1) = 0


\* C36: every URL with a link row or a page row is in normalized form,
\* normalize_url(u) = u, and every page row a batch collects is keyed by a
\* URL the batch marks visited.
C36_StoredUrlsAreNormalized ==
    /\ \A u \in DOMAIN links \cup DOMAIN pages :
           NormalizeOk(u) /\ normalize_url(u) = u
    /\ \A i \in 1..Len(pages_to_upsert) :
           /\ normalize_url(pages_to_upsert[i].url) = pages_to_upsert[i].url
           /\ pages_to_upsert[i].url \in Range(links_to_mark_visited)

\* The page of the root, whose anchor to /a is written with an upper-case
\* scheme and a fragment, has been stored and its discovered link inserted.
C36_Witness ==
    /\ pc = "mark_links_visited"
    /\ Root \in DOMAIN pages
    /\ PageA \in DOMAIN links /\ PageA \notin DOMAIN links0
    /\ PageA \in all_discovered_links


\* C37: during a run a URL is requested at most once: a URL about to be
\* requested has not been requested in this run, no step after the start
\* of the run makes a visited link unvisited, and the end of a batch
\* leaves every URL of the batch visited.
C37_NoSecondRequestInARun ==
    [][/\ (pc = "fetch" /\ todo' # todo /\ ~FailsValidation(Head(todo))) =>
            normalize_url(Head(todo)) \notin fetched
       /\ ~Idle =>
            \A u \in DOMAIN links : links[u].visited => links'[u].visited
       /\ (pc = "mark_links_visited" /\ pc' = "read") =>
            \A u \in Range(unvisited_links) : links'[u].visited]_vars

\* The root, requested in an earlier batch of this run, has been found
\* again as a link of a later batch and is still visited.
C37_Witness ==
    /\ pc = "mark_links_visited"
    /\ Root \in all_discovered_links
    /\ Root \in fetched /\ Root \notin Range(unvisited_links)
    /\ links[Root].visited


\* C38: no step replaces the content of a page row that has content with
\* NULL, or removes the row.
C38_ContentIsNeverLost ==
    [][\A u \in DOMAIN pages :
           pages[u].content # NULL =>
               u \in DOMAIN pages' /\ pages'[u].content # NULL]_vars


\* C39: a URL whose request once ended in a permanent skip, a 4xx status
\* or a content type other than text/html, is not requested again, in
\* this run or a later one.
C39_PermanentSkipIsPermanent ==
    [][(pc = "fetch" /\ todo' # todo /\ ~FailsValidation(Head(todo))) =>
          normalize_url(Head(todo)) \notin skipped]_vars

====
